---- MODULE Spec2Model ----
(***************************************************************************)
(* SacAgent of rlpyt/agents/qpg/sac_agent_v2.py as a state machine.        *)
(*                                                                         *)
(* A network's parameters (its state dict) are a tuple of integers; an     *)
(* attribute holding None is the empty tuple <<>>.  Parameter values are   *)
(* fixed-point: tau of update_target is the fraction t / TauDen, and a     *)
(* blend is taken only where its result is an integer again, so that the   *)
(* arithmetic of the model is exact.                                       *)
(***************************************************************************)
EXTENDS Integers, Sequences, FiniteSets, TLC

VARIABLES
    pc,                        \* "constructed" | "ready" | "failed" (initialize raised)
    max_q_eval_mode,           \* self._max_q_eval_mode
    initial_model_state_dict,  \* <<>> (None) or <<bundle>>
    pretrain_std,              \* in hundredths
    min_itr_learn,
    model,                     \* pi model parameters
    q1_model,
    q2_model,
    target_q1_model,
    target_q2_model,
    log_alpha,
    q_training,                \* <<>> or <<b>>: the training flag of q1_model and q2_model
    std,                       \* self.distribution's std: <<>> (None) or <<hundredths>>
    MaxQInput,                 \* module global: <<>> (None) or <<fields>>
    saved,                     \* the bundle last returned by state_dict(): <<>> or <<bundle>>
    modeCall,                  \* the last sample_mode / eval_mode call, <<>> if none yet
    last                       \* the last operation, its inputs and what it returned

vars == <<pc, max_q_eval_mode, initial_model_state_dict, pretrain_std, min_itr_learn,
          model, q1_model, q2_model, target_q1_model, target_q2_model, log_alpha,
          q_training, std, MaxQInput, saved, modeCall, last>>

config == <<max_q_eval_mode, initial_model_state_dict, pretrain_std>>
liveParams == <<model, q1_model, q2_model, log_alpha>>
modeState == <<q_training, std, modeCall>>
targetParams == <<target_q1_model, target_q2_model>>

None == <<>>

----------------------------------------------------------------------------
(* Bounds *)

\* tau ranges over 0/TauDen .. TauDen/TauDen
TauDen == 2
\* iterations handed to the mode switches range over 0..MaxItr
MaxItr == 3
\* number of pixels of the image that the model lets vary
NumPix == 5

----------------------------------------------------------------------------
(* Values *)

\* values a freshly constructed network or a gradient step may give a parameter
ParamVals == {0, TauDen}
\* values a target parameter can take after exact blends
TargetVals == 0..TauDen
AlphaVals == {-1, 0}
Taus == 0..TauDen

FreshNet == {<<v>> : v \in ParamVals}

Keys == <<"model", "q1_model", "q2_model", "target_q1_model", "target_q2_model", "alpha">>
KeySet == {Keys[i] : i \in 1..Len(Keys)}

Min(a, b) == IF a <= b THEN a ELSE b

----------------------------------------------------------------------------
(* Construction *)

Constructed(modes, bundles, stds) ==
    /\ pc = "constructed"
    /\ max_q_eval_mode \in modes
    /\ initial_model_state_dict \in bundles
    /\ pretrain_std \in stds
    /\ min_itr_learn = 0
    /\ model = None
    /\ q1_model = None
    /\ q2_model = None
    /\ target_q1_model = None
    /\ target_q2_model = None
    /\ log_alpha = None
    /\ q_training = None
    /\ std = None
    /\ MaxQInput = None
    /\ saved = None
    /\ modeCall = None
    /\ last = [op |-> "__init__"]

----------------------------------------------------------------------------
(* state_dict / load_state_dict *)

state_dict ==
    [k \in KeySet |->
        CASE k = "model" -> model
          [] k = "q1_model" -> q1_model
          [] k = "q2_model" -> q2_model
          [] k = "target_q1_model" -> target_q1_model
          [] k = "target_q2_model" -> target_q2_model
          [] k = "alpha" -> log_alpha]

\* Position in load_state_dict's sequence of subscripts of the first key the
\* bundle lacks (KeyError there); Len(Keys) + 1 when it has them all.
FirstMissing(sd) ==
    IF \A i \in 1..Len(Keys) : Keys[i] \in DOMAIN sd
    THEN Len(Keys) + 1
    ELSE CHOOSE i \in 1..Len(Keys) :
            /\ Keys[i] \notin DOMAIN sd
            /\ \A j \in 1..(i - 1) : Keys[j] \in DOMAIN sd

KeyIndex(k) == CHOOSE i \in 1..Len(Keys) : Keys[i] = k

\* The value part k holds after load_state_dict(sd) ran on an agent holding cur:
\* the statements before the KeyError have taken effect, the others have not.
Loaded(sd, k, cur) == IF KeyIndex(k) < FirstMissing(sd) THEN sd[k] ELSE cur

LoadRaises(sd) == FirstMissing(sd) <= Len(Keys)

----------------------------------------------------------------------------
(* Opaque collaborators: the networks' forward passes and exp *)

\* A critic's output for parameters p, observation (or candidate) code o and
\* action code a.  The network is a black box to the agent; this stand-in
\* depends on all three arguments.
QofMu(p, o, a) == ((p[1] + 3) * o + a + 2 * p[1]) % 29

\* exp(x) in thousandths, for the values log_alpha takes
ExpMilli(x) == CASE x = 0 -> 1000 [] x = -1 -> 368

\* update_state_dict(target, live_state_dict, tau) with tau = t / TauDen:
\* every parameter becomes tau * live + (1 - tau) * target
update_state_dict(target, live, t) ==
    [i \in DOMAIN target |-> (t * live[i] + (TauDen - t) * target[i]) \div TauDen]

\* the blend is exact in the model's fixed-point values
Exact(target, live, t) ==
    \A i \in DOMAIN target : (t * live[i] + (TauDen - t) * target[i]) % TauDen = 0

----------------------------------------------------------------------------
(* initialize *)

initialize_no_q2_copy(m, a, b, ta, tb) ==
    LET sd == initial_model_state_dict[1]
        given == initial_model_state_dict # None
        Fin(k, fresh) == IF given THEN Loaded(sd, k, fresh) ELSE fresh
        raised == given /\ LoadRaises(sd)
    IN  /\ pc = "constructed"
        /\ model' = Fin("model", m)
        /\ q1_model' = Fin("q1_model", a)
        /\ q2_model' = Fin("q2_model", b)
        /\ target_q1_model' = Fin("target_q1_model", a)
        /\ target_q2_model' = Fin("target_q2_model", tb)
        /\ log_alpha' = Fin("alpha", <<0>>)
        /\ q_training' = <<TRUE>>
        /\ std' = None
        /\ pc' = IF raised THEN "failed" ELSE "ready"
        /\ last' = [op |-> "initialize", raised |-> raised]
        /\ UNCHANGED <<config, min_itr_learn, MaxQInput, saved, modeCall>>

\* m, a, b, ta, tb: the parameters the five networks are constructed with.
initialize(m, a, b, ta, tb) ==
    LET sd == initial_model_state_dict[1]
        given == initial_model_state_dict # None
        \* target_q1_model.load_state_dict(q1_model.state_dict()), and q2 alike
        ta0 == a
        tb0 == b
        Fin(k, fresh) == IF given THEN Loaded(sd, k, fresh) ELSE fresh
        raised == given /\ LoadRaises(sd)
    IN  /\ pc = "constructed"
        /\ model' = Fin("model", m)
        /\ q1_model' = Fin("q1_model", a)
        /\ q2_model' = Fin("q2_model", b)
        /\ target_q1_model' = Fin("target_q1_model", ta0)
        /\ target_q2_model' = Fin("target_q2_model", tb0)
        /\ log_alpha' = Fin("alpha", <<0>>)
        \* Gaussian(...) is constructed with no std override; not reached on a raise
        /\ q_training' = <<TRUE>>
        /\ std' = None
        /\ pc' = IF raised THEN "failed" ELSE "ready"
        /\ last' = [op |-> "initialize", raised |-> raised]
        /\ UNCHANGED <<config, min_itr_learn, MaxQInput, saved, modeCall>>

Initialize == \E m, a, b, ta, tb \in FreshNet : initialize(m, a, b, ta, tb)

----------------------------------------------------------------------------
(* parameters exposed for gradient training, and the optimizers' steps *)

Models_with_target == {"model", "q1_model", "q2_model", "target_q1_model"}

Models == {"model", "q1_model", "q2_model"}

parameters == Models \cup {"log_alpha"}
pi_parameters == {"model"}
q1_parameters == {"q1_model"}
q2_parameters == {"q2_model"}

Assign(name, cur, x) == IF name = x.name THEN <<x.v>> ELSE cur

\* An optimizer built over one of the four parameter groups writes one of the
\* group's parameters in place.
OptimizerStep ==
    /\ pc = "ready"
    /\ \E group \in {parameters, pi_parameters, q1_parameters, q2_parameters} :
       \E n \in group :
       \E v \in (IF n = "log_alpha" THEN AlphaVals ELSE ParamVals) :
          LET x == [name |-> n, v |-> v]
          IN  /\ model' = Assign("model", model, x)
              /\ q1_model' = Assign("q1_model", q1_model, x)
              /\ q2_model' = Assign("q2_model", q2_model, x)
              /\ target_q1_model' = Assign("target_q1_model", target_q1_model, x)
              /\ target_q2_model' = Assign("target_q2_model", target_q2_model, x)
              /\ log_alpha' = Assign("log_alpha", log_alpha, x)
    /\ last' = [op |-> "optimizer_step"]
    /\ UNCHANGED <<pc, config, min_itr_learn, modeState, MaxQInput, saved>>

----------------------------------------------------------------------------
(* update_target *)

update_target_crossed(t) ==
    /\ pc = "ready"
    /\ Exact(target_q1_model, q1_model, t)
    /\ Exact(target_q2_model, q1_model, t)
    /\ target_q1_model' = update_state_dict(target_q1_model, q1_model, t)
    /\ target_q2_model' = update_state_dict(target_q2_model, q1_model, t)
    /\ last' = [op |-> "update_target", tau |-> t]
    /\ UNCHANGED <<pc, config, min_itr_learn, liveParams, modeState, MaxQInput,
                   saved>>

update_target(t) ==
    /\ pc = "ready"
    /\ Exact(target_q1_model, q1_model, t)
    /\ Exact(target_q2_model, q2_model, t)
    /\ target_q1_model' = update_state_dict(target_q1_model, q1_model, t)
    /\ target_q2_model' = update_state_dict(target_q2_model, q2_model, t)
    /\ last' = [op |-> "update_target", tau |-> t]
    /\ UNCHANGED <<pc, config, min_itr_learn, liveParams, modeState, MaxQInput,
                   saved>>

UpdateTarget == \E t \in Taus : update_target(t)

----------------------------------------------------------------------------
(* state_dict, load_state_dict as operations *)

\* The bundle is kept as the values the six parts have at the call, as a bundle
\* written out to a checkpoint holds them.
StateDict ==
    /\ pc = "ready"
    /\ saved' = <<state_dict>>
    /\ last' = [op |-> "state_dict"]
    /\ UNCHANGED <<pc, config, min_itr_learn, liveParams, targetParams, modeState,
                   MaxQInput>>

load_state_dict_target_from_live(sd) ==
    /\ pc = "ready"
    /\ model' = Loaded(sd, "model", model)
    /\ q1_model' = Loaded(sd, "q1_model", q1_model)
    /\ q2_model' = Loaded(sd, "q2_model", q2_model)
    /\ target_q1_model' =
          IF KeyIndex("target_q1_model") < FirstMissing(sd) THEN sd["q1_model"]
          ELSE target_q1_model
    /\ target_q2_model' = Loaded(sd, "target_q2_model", target_q2_model)
    /\ log_alpha' = Loaded(sd, "alpha", log_alpha)
    /\ last' = [op |-> "load_state_dict", raised |-> LoadRaises(sd),
                lacks |-> KeySet \ DOMAIN sd]
    /\ UNCHANGED <<pc, config, min_itr_learn, modeState, MaxQInput, saved>>

load_state_dict(sd) ==
    /\ pc = "ready"
    /\ model' = Loaded(sd, "model", model)
    /\ q1_model' = Loaded(sd, "q1_model", q1_model)
    /\ q2_model' = Loaded(sd, "q2_model", q2_model)
    /\ target_q1_model' = Loaded(sd, "target_q1_model", target_q1_model)
    /\ target_q2_model' = Loaded(sd, "target_q2_model", target_q2_model)
    /\ log_alpha' = Loaded(sd, "alpha", log_alpha)
    /\ last' = [op |-> "load_state_dict", raised |-> LoadRaises(sd),
                lacks |-> KeySet \ DOMAIN sd]
    /\ UNCHANGED <<pc, config, min_itr_learn, modeState, MaxQInput, saved>>

\* a bundle without part k
Without(sd, k) == [x \in (DOMAIN sd) \ {k} |-> sd[x]]

\* The caller restores the bundle state_dict() gave it, whole or with one part lost.
LoadStateDict ==
    /\ saved # None
    /\ \/ load_state_dict(saved[1])
       \/ \E k \in KeySet : load_state_dict(Without(saved[1], k))

----------------------------------------------------------------------------
(* q, target_q, pi, target_v *)

ObsVals == {0, 1}
ActionVals == {-1, 1}
LogPiVals == {-2, 0, 1}

q(o, a) == <<QofMu(q1_model, o, a), QofMu(q2_model, o, a)>>

target_q_from_live(o, a) == <<QofMu(q1_model, o, a), QofMu(q2_model, o, a)>>

target_q(o, a) == <<QofMu(target_q1_model, o, a), QofMu(target_q2_model, o, a)>>

\* a, lp: the action pi samples at the next state and its log-likelihood
target_v(o, a, lp) ==
    LET qs == target_q(o, a)
        min_next_q == Min(qs[1], qs[2])
    IN  1000 * min_next_q - ExpMilli(log_alpha[1]) * lp

TargetV ==
    /\ pc = "ready"
    /\ \E o \in ObsVals, a \in ActionVals, lp \in LogPiVals :
          last' = [op |-> "target_v", observation |-> o, next_action |-> a,
                   next_log_pi |-> lp, ret |-> target_v(o, a, lp)]
    /\ UNCHANGED <<pc, config, min_itr_learn, liveParams, targetParams, modeState,
                   MaxQInput, saved>>

----------------------------------------------------------------------------------------------------------------------------------------------------------------------------------------------------
(* give_min_itr_learn, sample_mode, eval_mode, train_mode *)

Itrs == 0..MaxItr

give_min_itr_learn(m) ==
    /\ min_itr_learn' = m
    /\ last' = [op |-> "give_min_itr_learn", min_itr_learn |-> m]
    /\ UNCHANGED <<pc, config, liveParams, targetParams, modeState, MaxQInput, saved>>

train_mode(itr) ==
    /\ pc = "ready"
    /\ q_training' = <<TRUE>>
    /\ last' = [op |-> "train_mode", itr |-> itr]
    /\ UNCHANGED <<pc, config, min_itr_learn, liveParams, targetParams, std, modeCall,
                   MaxQInput, saved>>

sample_mode_strict(itr) ==
    /\ pc = "ready"
    /\ q_training' = <<FALSE>>
    /\ std' = IF itr > min_itr_learn THEN None ELSE <<pretrain_std>>
    /\ modeCall' = <<[kind |-> "sample", itr |-> itr, min_itr_learn |-> min_itr_learn]>>
    /\ last' = [op |-> "sample_mode", itr |-> itr]
    /\ UNCHANGED <<pc, config, min_itr_learn, liveParams, targetParams, MaxQInput, saved>>

sample_mode(itr) ==
    /\ pc = "ready"
    /\ q_training' = <<FALSE>>
    \* std = None if itr >= self.min_itr_learn else self.pretrain_std; set_std(std)
    /\ std' = IF itr >= min_itr_learn THEN None ELSE <<pretrain_std>>
    /\ modeCall' = <<[kind |-> "sample", itr |-> itr, min_itr_learn |-> min_itr_learn]>>
    /\ last' = [op |-> "sample_mode", itr |-> itr]
    /\ UNCHANGED <<pc, config, min_itr_learn, liveParams, targetParams, MaxQInput, saved>>

eval_mode(itr) ==
    /\ pc = "ready"
    /\ q_training' = <<FALSE>>
    /\ std' = <<0>>
    /\ modeCall' = <<[kind |-> "eval", itr |-> itr, min_itr_learn |-> min_itr_learn]>>
    /\ last' = [op |-> "eval_mode", itr |-> itr]
    /\ UNCHANGED <<pc, config, min_itr_learn, liveParams, targetParams, MaxQInput, saved>>

GiveMinItrLearn == \E m \in Itrs : give_min_itr_learn(m)
TrainMode == \E itr \in Itrs : train_mode(itr)
SampleMode == \E itr \in Itrs : sample_mode(itr)
EvalMode == \E itr \in Itrs : eval_mode(itr)

----------------------------------------------------------------------------
(* step with a structured max-Q mode *)

ThresholdPct == 20        \* threshold = 0.2
RopeLen == 25
TileReps == 50
GridSide == 9
GridMax == 8
PixelMax == 63
SegThreshold == 100

StructuredModes ==
    {"state_rope", "state_cloth_corner", "state_cloth_point", "pixels_cloth_point"}

\* The policy's outputs for parameters p and input code o (a black box, as QofMu).
PiMean(p, o) == (((p[1] + 2) * o + p[1]) % 3) - 1
PiLogStd(p, o) == ((p[1] + o) % 2) - 1

\* tanh in thousandths, for the means the policy stand-in gives
Tanh(m) == CASE m = -1 -> -762 [] m = 0 -> 0 [] m = 1 -> 762

\* A coordinate is a fraction <<numerator, denominator>>.
\* The j-th entry of np.tile(row, (1, reps)).
Tile(row, reps, j) == row[((j - 1) % Len(row)) + 1]

\* The pixels of the image the model lets vary; every other pixel is background
\* (no channel below the cutoff).  PixAt(j) is <<row, column>>.
PixAt(j) ==
    CASE j = 1 -> <<0, 0>>
      [] j = 2 -> <<PixelMax, PixelMax>>
      [] OTHER -> <<(13 * j) % (PixelMax + 1), (29 * j) % (PixelMax + 1)>>

\* channel values of one pixel
PixelVals == {<<255, 99>>, <<100, 255>>}
Images == [1..NumPix -> PixelVals]

ToUint8(x) == x % 256

\* np.any(image.astype('uint8') < 100, axis=-1), as the set of pixels where it holds
Segmented(image) ==
    {j \in DOMAIN image : \E c \in DOMAIN image[j] : ToUint8(image[j][c]) < SegThreshold}

RowMajorLess(a, b) == a[1] < b[1] \/ (a[1] = b[1] /\ a[2] < b[2])

\* np.transpose(np.where(mask)): the coordinates where mask holds, in row-major order
Where(mask) ==
    LET pts == {PixAt(j) : j \in mask}
        rank(c) == Cardinality({d \in pts : RowMajorLess(d, c)}) + 1
    IN  [i \in 1..Cardinality(pts) |-> CHOOSE c \in pts : rank(c) = i]

\* The candidate rows before tiling, each entry a fraction.
Candidates(mode, obs) ==
    CASE mode = "state_rope" ->
            [i \in 1..RopeLen |-> << <<i - 1, 1>> >>]
      [] mode = "state_cloth_corner" ->
            [i \in 1..4 |-> [j \in 1..4 |-> <<IF i = j THEN 1 ELSE 0, 1>>]]
      [] mode = "state_cloth_point" ->
            [i \in 1..(GridSide * GridSide) |->
                << <<(i - 1) \div GridSide, GridMax>>, <<(i - 1) % GridSide, GridMax>> >>]
      [] mode = "pixels_cloth_point" ->
            LET w == Where(Segmented(obs))
            IN  [i \in DOMAIN w |-> << <<w[i][1], PixelMax>>, <<w[i][2], PixelMax>> >>]

\* locations[i][:, :2] of the tiled candidates
Location(mode, obs, i) ==
    LET row == Candidates(mode, obs)[i]
    IN  <<Tile(row, TileReps, 1), Tile(row, TileReps, 2)>>

\* (location - 0.5) / 0.5
Renorm(x) == <<2 * x[1] - x[2], x[2]>>

\* observations step is called with: a position code, or an image
Observations(mode) == IF mode = "pixels_cloth_point" THEN Images ELSE ObsVals
ObsCode(mode, obs) ==
    IF mode = "pixels_cloth_point" THEN Cardinality(Segmented(obs)) % 2 ELSE obs
ObsField(mode) == IF mode = "pixels_cloth_point" THEN "pixels" ELSE "position"

\* the network input code of candidate i paired with the observation
Aug(mode, obs, i) == 2 * i + ObsCode(mode, obs)

CandMean(mode, obs, i) == PiMean(model, Aug(mode, obs, i))

\* torch.min(q1, q2) at candidate i, the action being the policy mean
CandQ(mode, obs, i) ==
    Min(QofMu(q1_model, Aug(mode, obs, i), CandMean(mode, obs, i)),
        QofMu(q2_model, Aug(mode, obs, i), CandMean(mode, obs, i)))

n_top_at_least_one(n) == IF (ThresholdPct * n) \div 100 = 0 THEN 1 ELSE (ThresholdPct * n) \div 100

\* int(threshold * n_locations)
n_top(n) == (ThresholdPct * n) \div 100

\* the k smallest instead of the k largest
topk_smallest(qv, k) ==
    LET idx == DOMAIN qv
        v == CHOOSE x \in {qv[i] : i \in idx} :
                /\ Cardinality({i \in idx : qv[i] < x}) < k
                /\ Cardinality({i \in idx : qv[i] <= x}) >= k
        below == {i \in idx : qv[i] < v}
        ties == {i \in idx : qv[i] = v}
    IN  IF k = 0 THEN {{}}
        ELSE {below \cup X : X \in {Y \in SUBSET ties : Cardinality(Y) = k - Cardinality(below)}}

\* torch.topk(qv, k): the index sets it may return, k indices of largest value,
\* ties at the boundary broken any way.  Needs k <= number of entries.
topk(qv, k) ==
    LET idx == DOMAIN qv
        v == CHOOSE x \in {qv[i] : i \in idx} :
                /\ Cardinality({i \in idx : qv[i] > x}) < k
                /\ Cardinality({i \in idx : qv[i] >= x}) >= k
        above == {i \in idx : qv[i] > v}
        ties == {i \in idx : qv[i] = v}
    IN  IF k = 0 THEN {{}}
        ELSE {above \cup X : X \in {Y \in SUBSET ties : Cardinality(Y) = k - Cardinality(above)}}

\* torch.randint(high=k, size=(1,)) raises unless 0 < k
RandintRaises(k) == k <= 0

step(obs, no_batch) ==
    LET mode == max_q_eval_mode
        n == Len(Candidates(mode, obs))
        qv == [i \in 1..n |-> CandQ(mode, obs, i)]
        k == n_top(n)
    IN  /\ pc = "ready"
        /\ mode \in StructuredModes
        /\ MaxQInput' = IF MaxQInput = None THEN <<ObsField(mode)>> ELSE MaxQInput
        /\ IF k > n \/ RandintRaises(k)
           THEN last' = [op |-> "step", observation |-> obs, no_batch |-> no_batch,
                         raised |-> TRUE, indices |-> {}, chosen |-> None,
                         action |-> None, agent_info |-> None]
           ELSE \E indices \in topk(qv, k) :
                \E c \in indices :
                   last' = [op |-> "step", observation |-> obs, no_batch |-> no_batch,
                            raised |-> FALSE, indices |-> indices, chosen |-> <<c>>,
                            action |->
                               <<[location |-> <<Renorm(Location(mode, obs, c)[1]),
                                                 Renorm(Location(mode, obs, c)[2])>>,
                                  delta |-> Tanh(CandMean(mode, obs, c)),
                                  batched |-> ~no_batch]>>,
                            agent_info |->
                               <<[mean |-> CandMean(mode, obs, c),
                                  log_std |-> PiLogStd(model, Aug(mode, obs, c))]>>]
        /\ UNCHANGED <<pc, config, min_itr_learn, liveParams, targetParams, modeState,
                       saved>>

Step == \E obs \in Observations(max_q_eval_mode), no_batch \in BOOLEAN : step(obs, no_batch)

----------------
(* Specifications *)

Bundle(m, a, b, ta, tb, al) ==
    [k \in KeySet |->
        CASE k = "model" -> <<m>>
          [] k = "q1_model" -> <<a>>
          [] k = "q2_model" -> <<b>>
          [] k = "target_q1_model" -> <<ta>>
          [] k = "target_q2_model" -> <<tb>>
          [] k = "alpha" -> <<al>>]

CompleteBundles ==
    {Bundle(m, a, b, ta, tb, al) :
        m \in ParamVals, a \in ParamVals, b \in ParamVals,
        ta \in TargetVals, tb \in TargetVals, al \in AlphaVals}

Checkpoints == CompleteBundles \cup {Without(sd, k) : sd \in CompleteBundles, k \in KeySet}

\* checkpoints differing in the critics and the target critics
CriticCheckpoints ==
    LET whole == {Bundle(0, a, b, ta, tb, 0) :
                     a \in ParamVals, b \in ParamVals, ta \in TargetVals, tb \in TargetVals}
    IN  whole \cup {Without(sd, k) : sd \in whole, k \in KeySet}

\* The caller restores a checkpoint read from elsewhere.
Restore == \E sd \in CriticCheckpoints : load_state_dict(sd)

\* Construction with and without a checkpoint, then initialize.
InitInit == Constructed({"none"}, {None} \cup {<<sd>> : sd \in Checkpoints}, {75})
NextInit == Initialize
SpecInit == InitInit /\ [][NextInit]_vars

\* An agent constructed without a checkpoint: training, save and restore.
InitStore == Constructed({"none"}, {None}, {75})
NextStore == Initialize \/ OptimizerStep \/ StateDict \/ LoadStateDict
SpecStore == InitStore /\ [][NextStore]_vars

\* Training, target synchronization, restore and the soft value target.
NextTarget == Initialize \/ OptimizerStep \/ UpdateTarget \/ Restore \/ TargetV
SpecTarget == InitStore /\ [][NextTarget]_vars

----------------------------------------------------------------------------
(* Claims about the target critics and the state bundle *)

\* C1: update_target(tau) leaves every target parameter equal to
\* tau * live + (1 - tau) * old target; tau = 1 makes each target critic equal
\* to its live critic, tau = 0 changes neither target critic.
\* (tau = last'.tau / TauDen, so the equation is stated multiplied by TauDen.)
C1_PolyakBlend ==
    [][last'.op = "update_target" =>
        /\ \A i \in DOMAIN target_q1_model :
              TauDen * target_q1_model'[i] =
                 last'.tau * q1_model[i] + (TauDen - last'.tau) * target_q1_model[i]
        /\ \A i \in DOMAIN target_q2_model :
              TauDen * target_q2_model'[i] =
                 last'.tau * q2_model[i] + (TauDen - last'.tau) * target_q2_model[i]
        /\ (last'.tau = TauDen =>
              target_q1_model' = q1_model /\ target_q2_model' = q2_model)
        /\ (last'.tau = 0 => UNCHANGED targetParams)]_vars

\* a soft update has produced a target value strictly between two live values
C1_Witness ==
    /\ last.op = "update_target"
    /\ last.tau > 0 /\ last.tau < TauDen
    /\ target_q1_model[1] \notin ParamVals
    /\ target_q2_model # q1_model

\* C2 as claimed: after initialize returns, each target critic has the
\* parameters of its live critic, whatever the configuration.
C2_TargetsEqualLiveAlways ==
    (last.op = "initialize" /\ ~last.raised) =>
        target_q1_model = q1_model /\ target_q2_model = q2_model

\* C2 amended: after initialize returns, each target critic has the parameters
\* of its live critic when no initial_model_state_dict was given; when one was
\* given, the critics and the target critics hold the bundle's parts.
C2_TargetsAfterInitialize ==
    (last.op = "initialize" /\ ~last.raised) =>
        IF initial_model_state_dict = None
        THEN target_q1_model = q1_model /\ target_q2_model = q2_model
        ELSE LET sd == initial_model_state_dict[1]
             IN  /\ q1_model = sd["q1_model"]
                 /\ q2_model = sd["q2_model"]
                 /\ target_q1_model = sd["target_q1_model"]
                 /\ target_q2_model = sd["target_q2_model"]

\* initialize has returned after loading a checkpoint whose targets lag the critics
C2_Witness ==
    /\ last.op = "initialize" /\ ~last.raised
    /\ initial_model_state_dict # None
    /\ target_q1_model # q1_model
    /\ target_q2_model = q2_model

\* C3 as claimed: load_state_dict with a bundle lacking a part raises and
\* leaves the policy, the critics, the target critics and log_alpha as they were.
C3_FailedLoadChangesNothing ==
    [][(last'.op = "load_state_dict" /\ last'.lacks # {}) =>
          (last'.raised /\ UNCHANGED <<liveParams, targetParams>>)]_vars

\* C4: state_dict() holds the agent's six parts as they are at the call, and
\* after load_state_dict of that bundle the six parts are the bundle's again.
C4_RoundTrip ==
    /\ (last.op = "state_dict" => saved = <<state_dict>>)
    /\ (last.op = "load_state_dict" /\ ~last.raised => state_dict = saved[1])

\* a bundle whose targets differ from its critics has been restored
C4_Witness ==
    /\ last.op = "load_state_dict" /\ ~last.raised
    /\ target_q1_model # q1_model
    /\ target_q2_model # q2_model
    /\ log_alpha = <<-1>>

\* C8: target_v returns min(target_q1, target_q2) - exp(log_alpha) * next_log_pi
\* (in thousandths), the two values being the target critics' outputs at the
\* sampled next action and log_alpha the value held at the call.
C8_TargetV ==
    last.op = "target_v" =>
        last.ret =
            1000 * Min(QofMu(target_q1_model, last.observation, last.next_action),
                       QofMu(target_q2_model, last.observation, last.next_action))
            - ExpMilli(log_alpha[1]) * last.next_log_pi

\* target_v was called where the live critics would have given another value
C8_Witness ==
    /\ last.op = "target_v"
    /\ log_alpha = <<-1>>
    /\ last.next_log_pi # 0
    /\ Min(QofMu(target_q1_model, last.observation, last.next_action),
           QofMu(target_q2_model, last.observation, last.next_action))
       # Min(QofMu(q1_model, last.observation, last.next_action),
             QofMu(q2_model, last.observation, last.next_action))

\* C9: no parameter group exposed for training holds a target critic, a target
\* critic changes only in initialize, update_target or load_state_dict, and
\* update_target leaves the policy, the critics and log_alpha unchanged.
C9_TargetsOnlySynced ==
    [][/\ {"target_q1_model", "target_q2_model"}
            \cap (parameters \cup pi_parameters \cup q1_parameters \cup q2_parameters) = {}
       /\ (targetParams' # targetParams =>
              last'.op \in {"initialize", "update_target", "load_state_dict"})
       /\ (last'.op = "update_target" => UNCHANGED liveParams)]_vars

\* update_target has moved a target critic away from every value training writes
C9_Witness ==
    /\ last.op = "update_target"
    /\ target_q2_model[1] \notin ParamVals
    /\ q2_model[1] \in ParamVals

----------------------------------------------------------------------------
(* The standard-deviation override *)

InitMode == Constructed({"none"}, {None}, {20, 75})
NextMode == Initialize \/ GiveMinItrLearn \/ TrainMode \/ SampleMode \/ EvalMode
SpecMode == InitMode /\ [][NextMode]_vars

\* C7: once sample_mode or eval_mode has been called, the override is fixed by
\* the last such call alone: pretrain_std after sample_mode(itr) with
\* itr < min_itr_learn (as it was at the call), None after sample_mode(itr) with
\* itr >= min_itr_learn, 0 after eval_mode; calls of train_mode and
\* give_min_itr_learn in between do not change it.
C7_StdOverride ==
    modeCall # None =>
        LET c == modeCall[1]
        IN  std = CASE c.kind = "eval" -> <<0>>
                    [] c.kind = "sample" /\ c.itr < c.min_itr_learn -> <<pretrain_std>>
                    [] OTHER -> None

\* sample_mode was called at exactly the threshold, the threshold was raised
\* afterwards and train_mode ran last
C7_Witness ==
    /\ modeCall # None
    /\ modeCall[1].kind = "sample"
    /\ modeCall[1].itr = modeCall[1].min_itr_learn
    /\ modeCall[1].itr > 0
    /\ min_itr_learn > modeCall[1].itr
    /\ last.op = "train_mode"
    /\ std = None

----------------------------------------------------------------------------
(* The candidate search of step *)

InitStep == Constructed(StructuredModes, {None}, {75})
NextStep == Initialize \/ Step
SpecStep == InitStep /\ [][NextStep]_vars

\* the candidate count and the candidates' values of the step call last made
LastN == Len(Candidates(max_q_eval_mode, last.observation))
LastQ(i) == CandQ(max_q_eval_mode, last.observation, i)

\* C5 as claimed: in every step with a structured mode the kept set has
\* floor(0.2 * n) members, holds a candidate of maximal min(q1, q2), and the
\* chosen index is one of its members.
C5_TopSetAlways ==
    last.op = "step" =>
        /\ Cardinality(last.indices) = (2 * LastN) \div 10
        /\ \E i \in last.indices : \A j \in 1..LastN : LastQ(i) >= LastQ(j)
        /\ last.chosen # None /\ last.chosen[1] \in last.indices

\* C5 amended: the same, for the calls where floor(0.2 * n) >= 1.
C5_TopSet ==
    (last.op = "step" /\ (2 * LastN) \div 10 >= 1) =>
        /\ ~last.raised
        /\ Cardinality(last.indices) = (2 * LastN) \div 10
        /\ \E i \in last.indices : \A j \in 1..LastN : LastQ(i) >= LastQ(j)
        /\ last.chosen # None /\ last.chosen[1] \in last.indices

\* step chose a candidate that is in the kept set without being a maximal one
C5_Witness ==
    /\ last.op = "step" /\ ~last.raised
    /\ Cardinality(last.indices) > 1
    /\ \E j \in last.indices : LastQ(j) > LastQ(last.chosen[1])

\* C6: a step whose generator gives n candidates with floor(0.2 * n) = 0 raises
\* and returns no action.
C6_EmptySelectionRaises ==
    (last.op = "step" /\ (2 * LastN) \div 10 = 0) =>
        last.raised /\ last.action = None

\* step raised on an image with some, but fewer than five, pixels under the cutoff
C6_Witness ==
    /\ last.op = "step" /\ last.raised
    /\ max_q_eval_mode = "pixels_cloth_point"
    /\ LastN > 0

InUnit(x) == 0 <= x[1] /\ x[1] <= x[2]
AbsAtMostOne(x) == -x[2] <= x[1] /\ x[1] <= x[2]

\* C10 as claimed: in every structured mode each candidate coordinate is in
\* [0,1], and the two location components of the action step returns are in [-1,1].
C10_LocationInRange ==
    last.op = "step" =>
        /\ \A i \in 1..LastN :
              LET row == Candidates(max_q_eval_mode, last.observation)[i]
              IN  \A j \in DOMAIN row : InUnit(row[j])
        /\ (~last.raised =>
              \A d \in 1..2 : AbsAtMostOne(last.action[1].location[d]))

====
